---- MODULE Spec2Model ----
(***************************************************************************)
(* Authenticated HTTP pipeline of the expo template: request interceptor,  *)
(* response interceptor with token refresh and replay, AuthService's       *)
(* refreshToken / logout, AuthStorage over the two storage partitions and  *)
(* the network error classifier.                                           *)
(*                                                                         *)
(* Every asynchronous call is a frame on the call stack of the task that   *)
(* issued it; a frame runs up to its next await in one step.  AuthService  *)
(* is constructed, so tokenGetter, tokenRefresher and logoutHandler are    *)
(* registered (auth-service.ts 26-41).                                     *)
(***************************************************************************)
EXTENDS Integers, Sequences, FiniteSets, TLC

\* issued: the TokenInfos the refresh endpoint answers with in this run (the
\* server's side of the exchange; never changed by the program)
\* profile: the roles and permissions carried by the User object of the
\* Session; render: what the component or hook looked at last returned
VARIABLES store, now, stack, ret, logoutCalls, cPc, cErr, cOut, session,
          issued, profile, render

vars == <<store, now, stack, ret, logoutCalls, cPc, cErr, cOut, session,
          issued, profile, render>>

pipeVars == <<store, now, stack, ret, logoutCalls, session, issued, profile, render>>
classVars == <<cPc, cErr, cOut>>

(* ------------------------------ bounds --------------------------------- *)

\* deepest call stack explored, counted from the outermost request:
\* request -> refreshToken -> request -> ...
MaxDepth == 5
\* the invocation counters stop counting here
CountCap == 2

Tasks == {"t1"}

None == "none"

Min(a, b) == IF a < b THEN a ELSE b
Bump(n) == Min(n + 1, CountCap)

(* ------------------------- errors and classifier ----------------------- *)

NetworkErrorType ==
  {"TIMEOUT", "NO_NETWORK", "SERVER_ERROR", "CLIENT_ERROR", "UNAUTHORIZED",
   "FORBIDDEN", "NOT_FOUND", "CANCEL", "UNKNOWN"}

\* An error value.  status = 0 stands for "no response"; message is the set
\* of the substrings the classifier looks for that the text contains, "text"
\* standing for any other content, so the empty set is the empty message.
ErrorValue(ax, ty, st, cd, msg) ==
  [isAxiosError |-> ax, type |-> ty, status |-> st, code |-> cd, message |-> msg]

NoError == ErrorValue(FALSE, None, 0, None, {})

\* new Error('...') and the errors the storage backends throw
PlainError == ErrorValue(FALSE, None, 0, None, {"text"})

AxiosError(st, cd, msg) == ErrorValue(TRUE, None, st, cd, msg)

includes(message, sub) == sub \in message

getErrorType(error) ==
  IF error.status = 0
  THEN IF error.code = "ECONNABORTED" \/ includes(error.message, "timeout")
         THEN "TIMEOUT"
       ELSE IF error.code = "ERR_NETWORK" \/ includes(error.message, "Network Error")
         THEN "NO_NETWORK"
       ELSE IF includes(error.message, "cancel") THEN "CANCEL"
       ELSE "UNKNOWN"
  ELSE IF error.status = 401 THEN "UNAUTHORIZED"
  ELSE IF error.status = 403 THEN "FORBIDDEN"
  ELSE IF error.status = 404 THEN "NOT_FOUND"
  ELSE IF error.status >= 400 /\ error.status < 500 THEN "CLIENT_ERROR"
  ELSE IF error.status >= 500 THEN "SERVER_ERROR"
  ELSE "UNKNOWN"

\* The server's message, the table entry, the transport's message or the
\* default text: never empty.
getErrorMessage(error) ==
  IF error.message # {} THEN error.message ELSE {"text"}

handleNetworkError(error) ==
  IF error.type # None /\ error.message # {}
    THEN error
  ELSE IF ~error.isAxiosError
    THEN ErrorValue(FALSE, "UNKNOWN", 0, None,
                    IF error.message # {} THEN error.message ELSE {"text"})
  ELSE ErrorValue(FALSE, getErrorType(error), error.status, None,
                  getErrorMessage(error))

shouldReLogin_Forbidden(error) == error.type \in {"UNAUTHORIZED", "FORBIDDEN"}

shouldReLogin(error) == error.type = "UNAUTHORIZED"

(* --------------------------- Credential Store -------------------------- *)

AccessTokens == {"A1", "A2"}
RefreshTokens == {"R1", "R2"}
Users == {"U1", "U2"}

\* A response body's data field: null, an opaque payload, or a TokenInfo
\* (refreshToken = None and expiresIn = 0 stand for the absent optionals).
Data(kind, at, rt, ex) ==
  [kind |-> kind, accessToken |-> at, refreshToken |-> rt, expiresIn |-> ex,
   user |-> None]

NullData == Data("null", None, None, 0)
Payload == Data("payload", None, None, 0)

\* what the refresh endpoint may answer
TokenInfos ==
  {Data("token", at, rt, ex) : at \in {"A2"}, rt \in {None, "R2"},
                               ex \in {0, 3600}}

\* a second complete TokenInfo, for a server that answers two refreshes
\* with different tokens
RotatedTokenInfo == Data("token", "A3", "R3", 7200)

\* what the login and the registration endpoint may answer: a LoginResponse,
\* its token a TokenInfo and its user another one than an earlier session's
LoginResponses == {[ti EXCEPT !.kind = "login", !.user = "U2"] : ti \in TokenInfos}

\* CacheStorageService.setObject / getObject: a user is stored as its JSON
\* text and parsed back on reading; nothing stored reads as null
JSONstringify_Lossy(user) == "json:" \o None

JSONstringify(user) == "json:" \o user
JSONparse(text) ==
  IF text = None THEN None
  ELSE CHOOSE u \in Users \cup {None} : JSONstringify(u) = text

\* SecureStorageService.getItem / CacheStorageService.getItem: a backend
\* failure is caught and degrades to null.
getItem_Unguarded(key, readOk) == store[key]

getItem(key, readOk) == IF readOk THEN store[key] ELSE None

getAccessToken(readOk) == getItem("accessToken", readOk)

getRefreshToken(readOk) == getItem("refreshToken", readOk)

\* AuthStorage.clearToken removes the three token keys one after the other
\* and stops at the first removal that fails (tokFail = 1..3; 0 = none
\* fails); clearUser removes the user key unless its removal fails.
clearToken_AccessOnly(s, tokFail) == [s EXCEPT !["accessToken"] = None]

clearToken(s, tokFail) ==
  [s EXCEPT !["accessToken"] = IF tokFail = 1 THEN @ ELSE None,
            !["refreshToken"] = IF tokFail \in {1, 2} THEN @ ELSE None,
            !["tokenExpireAt"] = IF tokFail \in {1, 2, 3} THEN @ ELSE None]

clearUser_Keep(s, userFail) == s

clearUser(s, userFail) ==
  [s EXCEPT !["user"] = IF userFail THEN @ ELSE None]

\* AuthStorage.clearAll: both clears run; it throws when either failed.
clearAll_UserOnly(s, tokFail, userFail) ==
  [store |-> clearUser(s, userFail), failed |-> (tokFail # 0 \/ userFail)]

clearAll(s, tokFail, userFail) ==
  [store |-> clearUser(clearToken(s, tokFail), userFail),
   failed |-> (tokFail # 0 \/ userFail)]

(* ------------------------------ call frames ---------------------------- *)

NoHeader == [scheme |-> None, token |-> None]
Bearer(token) == [scheme |-> "Bearer", token |-> token]

\* One call in progress.  A request frame holds the config (endpoint,
\* requiresAuth, Authorization header), the interceptor's local token (and
\* whether the read behind it worked) and the classified networkError; a
\* refreshToken frame holds the TokenInfo being saved and the caught error.
Frame(fn, pc, endpoint, requiresAuth) ==
  [fn |-> fn, pc |-> pc, endpoint |-> endpoint, requiresAuth |-> requiresAuth,
   hdr |-> NoHeader, token |-> None, readOk |-> TRUE, err |-> NoError,
   tokenInfo |-> NullData, refreshes |-> 0, replays |-> 0]

\* What a call handed to its caller: resolved with data or rejected with
\* err; warned records that the response interceptor logged a business code.
Result(from, ok, data, err, warned) ==
  [from |-> from, ok |-> ok, data |-> data, err |-> err, warned |-> warned]
NoResult == Result(None, TRUE, NullData, NoError, FALSE)
Resolved(from, data) == Result(from, TRUE, data, NoError, FALSE)
Thrown(from, err) == Result(from, FALSE, NullData, err, FALSE)

Top(t) == stack[t][Len(stack[t])]
Running(t) == stack[t] # <<>>
TopIs(t, fn, pc) == Running(t) /\ Top(t).fn = fn /\ Top(t).pc = pc

Push(t, parent, child) ==
  [stack EXCEPT ![t] = Append(SubSeq(@, 1, Len(@) - 1), parent) \o <<child>>]
Replace(t, f) ==
  [stack EXCEPT ![t] = Append(SubSeq(@, 1, Len(@) - 1), f)]
Pop(t) ==
  [stack EXCEPT ![t] = SubSeq(@, 1, Len(@) - 1)]


(* -------------------------- the Request Pipeline ----------------------- *)

\* what the transport may answer with on failure: one error per class for
\* an application request, three classes for the two auth endpoints
TransportErrors(endpoint) ==
  IF endpoint = "api"
  THEN {AxiosError(st, "ERR_BAD_REQUEST", {"text"}) : st \in {400, 401, 403, 404}}
       \cup {AxiosError(500, "ERR_BAD_RESPONSE", {"text"}),
             AxiosError(0, "ECONNABORTED", {"timeout"}),
             AxiosError(0, "ERR_NETWORK", {"Network Error"}),
             AxiosError(0, "ERR_CANCELED", {"cancel"}),
             AxiosError(0, None, {"text"})}
  ELSE {AxiosError(401, "ERR_BAD_REQUEST", {"text"}),
        AxiosError(500, "ERR_BAD_RESPONSE", {"text"}),
        AxiosError(0, "ERR_NETWORK", {"Network Error"})}

\* envelopes of a transport-level success: no code, the two success
\* sentinels or a business error code; the refresh endpoint answers a
\* TokenInfo, or a business error without data
Envelope(hasCode, code, data) == [hasCode |-> hasCode, code |-> code, data |-> data]

Envelopes(endpoint) ==
  IF endpoint = "api"
  THEN {Envelope(hc[1], hc[2], d) :
          hc \in {<<FALSE, 0>>, <<TRUE, 0>>, <<TRUE, 200>>, <<TRUE, 1001>>},
          d \in {Payload, NullData}}
  ELSE IF endpoint = "refresh"
  THEN {Envelope(TRUE, 200, d) : d \in issued} \cup {Envelope(TRUE, 1001, NullData)}
  ELSE IF endpoint \in {"login", "register"}
  THEN {Envelope(TRUE, 200, d) : d \in LoginResponses} \cup {Envelope(TRUE, 1001, NullData)}
  ELSE IF endpoint = "update"
  THEN {Envelope(TRUE, 200, [Data("user", None, None, 0) EXCEPT !.user = "U2"]),
        Envelope(TRUE, 1001, NullData)}
  ELSE {Envelope(TRUE, 200, NullData), Envelope(TRUE, 1001, NullData)}

\* request interceptor, lines 64-67: the header is assigned only when the
\* getter yields a token; the config's requiresAuth is never consulted.
requestInterceptor(config, token) ==
  IF token # None THEN Bearer(token) ELSE config.hdr

isBusinessError(resp) == resp.hasCode /\ resp.code # 0 /\ resp.code # 200

\* response interceptor, success handler: a business code is logged as a
\* warning and the response is returned all the same.
responseFulfilled_Reject(resp) ==
  [warned |-> isBusinessError(resp), rejected |-> isBusinessError(resp)]

responseFulfilled(resp) ==
  [warned |-> isBusinessError(resp), rejected |-> FALSE]

\* HttpClient.request, catch: whatever the instance rejected with is
\* normalised once more.
requestCatch_Rethrow(error) == error

requestCatch(error) == handleNetworkError(error)

Call(t, requiresAuth) ==
  /\ ~Running(t)
  /\ stack' = [stack EXCEPT ![t] = <<Frame("request", "send", "api", requiresAuth)>>]
  /\ ret' = [ret EXCEPT ![t] = NoResult]
  /\ logoutCalls' = [logoutCalls EXCEPT ![t] = 0]
  /\ UNCHANGED <<store, now, classVars, session, issued, profile, render>>

\* request interceptor, then the transport sends the request
Dispatch(t) ==
  /\ TopIs(t, "request", "send")
  /\ \E readOk \in BOOLEAN :
       LET f == Top(t)
           token == getAccessToken(readOk)
       IN stack' = Replace(t, [f EXCEPT !.pc = "wait", !.token = token,
                                        !.readOk = readOk,
                                        !.hdr = requestInterceptor(f, token)])
  /\ UNCHANGED <<store, now, ret, logoutCalls, classVars, session, issued, profile, render>>

\* the transport resolves: response interceptor success handler, then
\* request() returns data.data
ResponseFulfilled(t) ==
  /\ TopIs(t, "request", "wait")
  /\ \E resp \in Envelopes(Top(t).endpoint) :
       LET r == responseFulfilled(resp)
       IN ret' = [ret EXCEPT ![t] =
                    IF r.rejected
                    THEN Result("request", FALSE, NullData,
                                requestCatch(PlainError), r.warned)
                    ELSE Result("request", TRUE, resp.data, NoError, r.warned)]
  /\ stack' = Pop(t)
  /\ UNCHANGED <<store, now, logoutCalls, classVars, session, issued, profile, render>>

\* the frames of the callers under the outermost request of the stack
CallerDepth(t) ==
  Cardinality({i \in 1..Len(stack[t]) :
                 \A j \in 1..i : stack[t][j].fn # "request"})

\* the top frame is the request the application (or the auth layer) issued,
\* not one issued while another request's 401 is being handled; the
\* invocations made on its behalf are the ones counted
Outermost(t) == Len(stack[t]) = CallerDepth(t) + 1

\* the transport rejects: response interceptor error handler, lines 138-153
\* and 163.  A 401 is explored only while the call stack has room for the
\* refresh it starts.
ResponseRejected(t) ==
  /\ TopIs(t, "request", "wait")
  /\ \E error \in TransportErrors(Top(t).endpoint) :
       LET f == Top(t)
           networkError == handleNetworkError(error)
       IN IF shouldReLogin(networkError)
          THEN /\ Len(stack[t]) - CallerDepth(t) + 2 <= MaxDepth
               /\ stack' = Push(t, [f EXCEPT !.pc = "refreshing", !.token = None,
                                             !.readOk = TRUE, !.err = networkError,
                                             !.refreshes =
                                                IF Outermost(t) THEN Bump(@) ELSE @],
                                Frame("refreshToken", "start", None, "unset"))
               /\ UNCHANGED ret
          ELSE /\ stack' = Pop(t)
               /\ ret' = [ret EXCEPT ![t] =
                            Thrown("request", requestCatch(networkError))]
  /\ UNCHANGED <<store, now, logoutCalls, classVars, session, issued, profile, render>>

\* lines 149-159: the refresher returned (replay through the same instance)
\* or threw (logout handler)
AfterRefresh(t) ==
  /\ TopIs(t, "request", "refreshing")
  /\ LET f == Top(t)
     IN IF ret[t].ok
        THEN /\ stack' = Replace(t, [f EXCEPT !.pc = "send",
                                             !.replays = IF Outermost(t) THEN Bump(@) ELSE @])
             /\ UNCHANGED logoutCalls
        ELSE /\ stack' = Push(t, [f EXCEPT !.pc = "loggingout"],
                              Frame("logout", "start", None, "unset"))
             /\ logoutCalls' = [logoutCalls EXCEPT ![t] = Bump(@)]
  /\ ret' = [ret EXCEPT ![t] = NoResult]
  /\ UNCHANGED <<store, now, classVars, session, issued, profile, render>>

\* lines 158-163: the logout handler returned, so the interceptor rejects
\* with networkError, or it threw out of the catch block
AfterLogout(t) ==
  /\ TopIs(t, "request", "loggingout")
  /\ LET f == Top(t)
         thrown == IF ret[t].ok THEN f.err ELSE ret[t].err
     IN /\ stack' = Pop(t)
        /\ ret' = [ret EXCEPT ![t] = Thrown("request", requestCatch(thrown))]
  /\ UNCHANGED <<store, now, logoutCalls, classVars, session, issued, profile, render>>

(* ------------------------------ AuthService ---------------------------- *)

Return(t, result) ==
  /\ stack' = Pop(t)
  /\ ret' = [ret EXCEPT ![t] = result]

\* refreshToken, lines 130-139
RefreshStart(t) ==
  /\ TopIs(t, "refreshToken", "start")
  /\ \E readOk \in BOOLEAN :
       LET f == Top(t)
           refreshToken == getRefreshToken(readOk)
       IN IF refreshToken = None
          THEN stack' = Replace(t, [f EXCEPT !.pc = "catch", !.err = PlainError])
          ELSE stack' = Push(t, [f EXCEPT !.pc = "posting"],
                             Frame("request", "send", "refresh", "unset"))
  /\ UNCHANGED <<store, now, ret, logoutCalls, classVars, session, issued, profile, render>>

\* refreshToken, line 142: the POST returned; saveToken reads accessToken
\* off the TokenInfo, which throws on a null body
RefreshPosted(t) ==
  /\ TopIs(t, "refreshToken", "posting")
  /\ LET f == Top(t)
     IN stack' = Replace(t,
          IF ~ret[t].ok THEN [f EXCEPT !.pc = "catch", !.err = ret[t].err]
          ELSE IF ret[t].data.kind # "token"
            THEN [f EXCEPT !.pc = "catch", !.err = PlainError]
          ELSE [f EXCEPT !.pc = "saveAccess", !.tokenInfo = ret[t].data])
  /\ ret' = [ret EXCEPT ![t] = NoResult]
  /\ UNCHANGED <<store, now, logoutCalls, classVars, session, issued, profile, render>>

\* the callers of AuthStorage.saveToken: refreshToken, login and register
Saving(t, pc) ==
  Running(t) /\ Top(t).fn \in {"refreshToken", "login", "register"} /\ Top(t).pc = pc

\* AuthStorage.saveToken, line 22: a failing write throws into the caller's
\* catch
SaveAccess(t) ==
  /\ Saving(t, "saveAccess")
  /\ \E writeOk \in BOOLEAN :
       LET f == Top(t)
       IN IF writeOk
          THEN /\ store' = [store EXCEPT !["accessToken"] = f.tokenInfo.accessToken]
               /\ stack' = Replace(t, [f EXCEPT !.pc = "saveRefresh"])
          ELSE /\ stack' = Replace(t, [f EXCEPT !.pc = "catch", !.err = PlainError])
               /\ UNCHANGED store
  /\ UNCHANGED <<now, ret, logoutCalls, classVars, session, issued, profile, render>>

\* AuthStorage.saveToken, lines 25-27: skipped without a refreshToken
SaveRefresh_Always(t) ==
  /\ Saving(t, "saveRefresh")
  /\ store' = [store EXCEPT !["refreshToken"] = Top(t).tokenInfo.refreshToken]
  /\ stack' = Replace(t, [Top(t) EXCEPT !.pc = "saveExpire"])
  /\ UNCHANGED <<now, ret, logoutCalls, classVars, session, issued, profile, render>>

SaveRefresh(t) ==
  /\ Saving(t, "saveRefresh")
  /\ \E writeOk \in BOOLEAN :
       LET f == Top(t)
       IN IF f.tokenInfo.refreshToken = None
          THEN /\ stack' = Replace(t, [f EXCEPT !.pc = "saveExpire"])
               /\ UNCHANGED store
          ELSE IF writeOk
          THEN /\ store' = [store EXCEPT !["refreshToken"] = f.tokenInfo.refreshToken]
               /\ stack' = Replace(t, [f EXCEPT !.pc = "saveExpire"])
          ELSE /\ stack' = Replace(t, [f EXCEPT !.pc = "catch", !.err = PlainError])
               /\ UNCHANGED store
  /\ UNCHANGED <<now, ret, logoutCalls, classVars, session, issued, profile, render>>

\* AuthStorage.saveToken, lines 30-33: skipped without expiresIn; the
\* expiry is stored as the decimal string of now + expiresIn * 1000
SaveExpire(t) ==
  /\ Saving(t, "saveExpire")
  /\ \E writeOk \in BOOLEAN :
       LET f == Top(t)
       IN IF f.tokenInfo.expiresIn = 0
          THEN /\ stack' = Replace(t, [f EXCEPT !.pc = "saved"])
               /\ UNCHANGED store
          ELSE IF writeOk
          THEN /\ store' = [store EXCEPT !["tokenExpireAt"] =
                                     ToString(now + f.tokenInfo.expiresIn * 1000)]
               /\ stack' = Replace(t, [f EXCEPT !.pc = "saved"])
          ELSE /\ stack' = Replace(t, [f EXCEPT !.pc = "catch", !.err = PlainError])
               /\ UNCHANGED store
  /\ UNCHANGED <<now, ret, logoutCalls, classVars, session, issued, profile, render>>

\* refreshToken returns
RefreshDone(t) ==
  /\ TopIs(t, "refreshToken", "saved")
  /\ Return(t, Resolved("refreshToken", NullData))
  /\ UNCHANGED <<store, now, logoutCalls, classVars, session, issued, profile, render>>

\* refreshToken, lines 145-153: clear the store, rethrow
RefreshCatch(t) ==
  /\ TopIs(t, "refreshToken", "catch")
  /\ \E tokFail \in 0..3, userFail \in BOOLEAN :
       LET c == clearAll(store, tokFail, userFail)
       IN /\ store' = c.store
          /\ Return(t, Thrown("refreshToken",
                              IF c.failed THEN PlainError ELSE Top(t).err))
  /\ UNCHANGED <<now, logoutCalls, classVars, session, issued, profile, render>>

\* logout, line 79
LogoutStart(t) ==
  /\ TopIs(t, "logout", "start")
  /\ stack' = Push(t, [Top(t) EXCEPT !.pc = "posting"],
                   Frame("request", "send", "logout", "unset"))
  /\ UNCHANGED <<store, now, ret, logoutCalls, classVars, session, issued, profile, render>>

\* logout, lines 80-93: the POST's outcome is ignored, the store is cleared
LogoutPosted(t) ==
  /\ TopIs(t, "logout", "posting")
  /\ \E tokFail \in 0..3, userFail \in BOOLEAN :
       LET c == clearAll(store, tokFail, userFail)
       IN /\ store' = c.store
          /\ Return(t, IF c.failed THEN Thrown("logout", PlainError)
                       ELSE Resolved("logout", NullData))
  /\ UNCHANGED <<now, logoutCalls, classVars, session, issued, profile, render>>

\* login, lines 51-54, and register, lines 104-107: fn is "login" or
\* "register", which is also the endpoint posted to
LoginStart(t) ==
  /\ Running(t) /\ Top(t).fn \in {"login", "register"} /\ Top(t).pc = "start"
  /\ stack' = Push(t, [Top(t) EXCEPT !.pc = "posting"],
                   Frame("request", "send", Top(t).fn, "unset"))
  /\ UNCHANGED <<store, now, ret, logoutCalls, classVars, session, issued, profile, render>>

\* login, line 57: the POST returned; response.token is read off the
\* LoginResponse, which throws on a null body
LoginPosted(t) ==
  /\ Running(t) /\ Top(t).fn \in {"login", "register"} /\ Top(t).pc = "posting"
  /\ LET f == Top(t)
     IN stack' = Replace(t,
          IF ~ret[t].ok THEN [f EXCEPT !.pc = "catch", !.err = ret[t].err]
          ELSE IF ret[t].data.kind # "login"
            THEN [f EXCEPT !.pc = "catch", !.err = PlainError]
          ELSE [f EXCEPT !.pc = "saveAccess", !.tokenInfo = ret[t].data])
  /\ ret' = [ret EXCEPT ![t] = NoResult]
  /\ UNCHANGED <<store, now, logoutCalls, classVars, session, issued, profile, render>>

\* login, line 58: AuthStorage.saveUser, whose failing write throws
LoginSaveUser(t) ==
  /\ Running(t) /\ Top(t).fn \in {"login", "register"} /\ Top(t).pc = "saved"
  /\ \E writeOk \in BOOLEAN :
       LET f == Top(t)
       IN IF writeOk
          THEN /\ store' = [store EXCEPT !["user"] = JSONstringify(f.tokenInfo.user)]
               /\ stack' = Replace(t, [f EXCEPT !.pc = "done"])
          ELSE /\ stack' = Replace(t, [f EXCEPT !.pc = "catch", !.err = PlainError])
               /\ UNCHANGED store
  /\ UNCHANGED <<now, ret, logoutCalls, classVars, session, issued, profile, render>>

\* login, line 62: return response.user
LoginDone(t) ==
  /\ Running(t) /\ Top(t).fn \in {"login", "register"} /\ Top(t).pc = "done"
  /\ Return(t, Resolved(Top(t).fn, Top(t).tokenInfo))
  /\ UNCHANGED <<store, now, logoutCalls, classVars, session, issued, profile, render>>

\* login, lines 63-67: the error is rethrown; nothing is cleared
LoginCatch(t) ==
  /\ Running(t) /\ Top(t).fn \in {"login", "register"} /\ Top(t).pc = "catch"
  /\ Return(t, Thrown(Top(t).fn, Top(t).err))
  /\ UNCHANGED <<store, now, logoutCalls, classVars, session, issued, profile, render>>

\* a caller invokes login, register, logout, refreshToken or checkAuth on
\* authService
CallAuthService(t, fn) ==
  /\ ~Running(t)
  /\ stack' = [stack EXCEPT ![t] = <<Frame(fn, "start", None, "unset")>>]
  /\ ret' = [ret EXCEPT ![t] = NoResult]
  /\ logoutCalls' = [logoutCalls EXCEPT ![t] = 0]
  /\ UNCHANGED <<store, now, classVars, session, issued, profile, render>>

(* ---------------------- permissions and RouteGuard --------------------- *)

\* longest roles / permissions list explored
MaxList == 2

RoleNames == {"admin", "super_admin", "editor"}
PermissionNames == {"admin.access", "post.edit"}

\* the lists of at most MaxList entries over a set of names
Lists(S) == UNION {[1..n -> S] : n \in 0..MaxList}

\* an optional string[] field: absent, or an array
Undefined == [defined |-> FALSE, items |-> <<>>]
List(items) == [defined |-> TRUE, items |-> items]
Optional(S) == {Undefined} \cup {List(l) : l \in Lists(S)}

\* User.roles and User.permissions, both optional: what the User object in
\* the Session carries besides its identity
Profiles == [roles : Optional(RoleNames), permissions : Optional(PermissionNames)]
NoProfile == [roles |-> Undefined, permissions |-> Undefined]

\* nothing was rendered and no hook was called yet
NoRender == [kind |-> "none"]

(* ---------------------------- specifications --------------------------- *)

\* the Credential Store with none of its four entries
EmptyStore ==
  [accessToken |-> None, refreshToken |-> None, tokenExpireAt |-> None,
   user |-> None]

\* The store a process starts with: empty, or what an earlier login left
\* (the refresh token and the expiry are optional in a TokenInfo).
Stores ==
  {[accessToken |-> None, refreshToken |-> None, tokenExpireAt |-> None,
    user |-> None]}
  \cup [accessToken : {"A1"}, refreshToken : {None, "R1"},
        tokenExpireAt : {None, ToString(3600000)}, user : {JSONstringify("U1")}]

ClassIdle ==
  /\ cPc = "idle"
  /\ cErr = NoError
  /\ cOut = [type |-> None, reLogin |-> FALSE]

\* AuthProvider's state, lines 33-35: status, user and token as first
\* rendered
SessionIdle == session = [status |-> "idle", user |-> None, token |-> None]

Init ==
  /\ store \in Stores
  /\ now = 0
  /\ stack = [t \in Tasks |-> <<>>]
  /\ ret = [t \in Tasks |-> NoResult]
  /\ logoutCalls = [t \in Tasks |-> 0]
  /\ ClassIdle
  /\ SessionIdle
  /\ issued = TokenInfos
  /\ profile = NoProfile
  /\ render = NoRender

Step(t) ==
  \/ Dispatch(t)
  \/ ResponseFulfilled(t)
  \/ ResponseRejected(t)
  \/ AfterRefresh(t)
  \/ AfterLogout(t)
  \/ RefreshStart(t)
  \/ RefreshPosted(t)
  \/ SaveAccess(t)
  \/ SaveRefresh(t)
  \/ SaveExpire(t)
  \/ RefreshDone(t)
  \/ RefreshCatch(t)
  \/ LogoutStart(t)
  \/ LogoutPosted(t)

Next ==
  \/ \E t \in Tasks, requiresAuth \in {"true", "false", "unset"} : Call(t, requiresAuth)
  \/ \E t \in Tasks : Step(t)

Spec == Init /\ [][Next]_vars

\* The event loop runs every continuation that is ready.
FairSpec == Spec /\ \A t \in Tasks : WF_vars(Step(t))

(* ----------------- the classifier on its own inputs -------------------- *)

\* transport errors handed to the classifier: with a response, the status
\* decides; without one, the error code and the message text do
ClassifierInputs ==
  {AxiosError(st, IF st < 500 THEN "ERR_BAD_REQUEST" ELSE "ERR_BAD_RESPONSE", {"text"}) :
     st \in {304, 400, 401, 402, 403, 404, 408, 422, 429, 499, 500, 502, 503, 599}}
  \cup {AxiosError(0, cd, msg) :
          cd \in {"ECONNABORTED", "ERR_NETWORK", "ERR_CANCELED", None},
          msg \in (SUBSET {"timeout", "Network Error", "cancel"} \ {{}})
                    \cup {{"text"}}}

ClassInit ==
  /\ store = [accessToken |-> None, refreshToken |-> None,
              tokenExpireAt |-> None, user |-> None]
  /\ now = 0
  /\ stack = [t \in Tasks |-> <<>>]
  /\ ret = [t \in Tasks |-> NoResult]
  /\ logoutCalls = [t \in Tasks |-> 0]
  /\ cPc = "input"
  /\ cErr \in ClassifierInputs
  /\ cOut = [type |-> None, reLogin |-> FALSE]
  /\ SessionIdle
  /\ issued = TokenInfos
  /\ profile = NoProfile
  /\ render = NoRender

\* handleNetworkError, line 422
Classify ==
  /\ cPc = "input"
  /\ cOut' = [cOut EXCEPT !.type = getErrorType(cErr)]
  /\ cPc' = "classified"
  /\ UNCHANGED <<cErr, pipeVars>>

\* interceptor, line 143
CheckReLogin ==
  /\ cPc = "classified"
  /\ cOut' = [cOut EXCEPT !.reLogin = shouldReLogin(handleNetworkError(cErr))]
  /\ cPc' = "checked"
  /\ UNCHANGED <<cErr, pipeVars>>

ClassNext == Classify \/ CheckReLogin

ClassSpec == ClassInit /\ [][ClassNext]_vars

(* ------------------- AuthService called on its own --------------------- *)

AuthStep(t) ==
  \/ Step(t)
  \/ LoginStart(t)
  \/ LoginPosted(t)
  \/ LoginSaveUser(t)
  \/ LoginDone(t)
  \/ LoginCatch(t)

AuthNext ==
  \/ \E t \in Tasks, fn \in {"login", "register", "logout", "refreshToken"} :
        CallAuthService(t, fn)
  \/ \E t \in Tasks : AuthStep(t)

AuthSpec == Init /\ [][AuthNext]_vars

(* --------------------- token expiry and checkAuth ---------------------- *)

\* the moments at which the process may run, in ms
Times == {3299999, 3300000}

\* the expiry times saveToken can have stored
ExpireTimes ==
  {t + ti.expiresIn * 1000 : t \in Times \cup {0},
                              ti \in TokenInfos \cup {RotatedTokenInfo}}

\* expireTime.toString() and parseInt(expireTimeStr, 10): the number whose
\* decimal text the store holds
parseInt(text) == CHOOSE n \in ExpireTimes : ToString(n) = text

bufferTime == 5 * 60 * 1000

\* AuthStorage.isTokenExpired
isTokenExpired_NoBuffer(readOk) ==
  LET expireTimeStr == getItem("tokenExpireAt", readOk)
  IN IF expireTimeStr = None THEN FALSE
     ELSE now >= parseInt(expireTimeStr)

isTokenExpired(readOk) ==
  LET expireTimeStr == getItem("tokenExpireAt", readOk)
  IN IF expireTimeStr = None THEN FALSE
     ELSE now >= parseInt(expireTimeStr) - bufferTime

\* a boolean handed back by a call
BoolData(b) == Data(IF b THEN "true" ELSE "false", None, None, 0)

\* checkAuth, lines 214-231: no token, a token that is not expired, or a
\* refresh of the expired one
CheckAuthStart(t) ==
  /\ TopIs(t, "checkAuth", "start")
  /\ \E tokenOk \in BOOLEAN, expireOk \in BOOLEAN :
       LET f == Top(t)
           token == getAccessToken(tokenOk)
           isExpired == isTokenExpired(expireOk)
       IN IF token = None
          THEN Return(t, Resolved("checkAuth", BoolData(FALSE)))
          ELSE IF isExpired
          THEN /\ stack' = Push(t, [f EXCEPT !.pc = "refreshing", !.token = token],
                                Frame("refreshToken", "start", None, "unset"))
               /\ UNCHANGED ret
          ELSE Return(t, Resolved("checkAuth", BoolData(TRUE)))
  /\ UNCHANGED <<store, now, logoutCalls, classVars, session, issued, profile, render>>

\* checkAuth, lines 223-228: true after the refresh, false from its catch
refreshedResult_True(refreshOk) == BoolData(TRUE)

refreshedResult(refreshOk) == BoolData(refreshOk)

\* checkAuth, lines 223-228
CheckAuthRefreshed(t) ==
  /\ TopIs(t, "checkAuth", "refreshing")
  /\ Return(t, Resolved("checkAuth", refreshedResult(ret[t].ok)))
  /\ UNCHANGED <<store, now, logoutCalls, classVars, session, issued, profile, render>>

(* ------------------------------ updateUser ----------------------------- *)

\* updateUser, lines 191-194
UpdateUserStart(t) ==
  /\ TopIs(t, "updateUser", "start")
  /\ stack' = Push(t, [Top(t) EXCEPT !.pc = "posting"],
                   Frame("request", "send", "update", "unset"))
  /\ UNCHANGED <<store, now, ret, logoutCalls, classVars, session, issued, profile, render>>

\* updateUser, lines 197-206: what the PUT returned is saved (a null body is
\* saved as the JSON text of null) and returned; every failure is rethrown
UpdateUserPosted(t) ==
  /\ TopIs(t, "updateUser", "posting")
  /\ \E writeOk \in BOOLEAN :
       IF ~ret[t].ok
       THEN /\ Return(t, Thrown("updateUser", ret[t].err))
            /\ UNCHANGED store
       ELSE IF writeOk
       THEN /\ store' = [store EXCEPT !["user"] = JSONstringify(ret[t].data.user)]
            /\ Return(t, Resolved("updateUser", ret[t].data))
       ELSE /\ Return(t, Thrown("updateUser", PlainError))
            /\ UNCHANGED store
  /\ UNCHANGED <<now, logoutCalls, classVars, session, issued, profile, render>>

(* ------------------------------ AuthProvider --------------------------- *)

\* a frame of one of AuthProvider's callbacks
Provider(op) == "AuthProvider." \o op

ProviderIs(t, ops, pc) ==
  Running(t) /\ Top(t).fn \in {Provider(op) : op \in ops} /\ Top(t).pc = pc

\* the application calls one of the callbacks the context exposes; the
\* context's checkAuth and the mount effect both run initAuth
CallProvider(t, op) ==
  /\ ~Running(t)
  /\ stack' = [stack EXCEPT ![t] = <<Frame(Provider(op), "start", None, "unset")>>]
  /\ ret' = [ret EXCEPT ![t] = NoResult]
  /\ logoutCalls' = [logoutCalls EXCEPT ![t] = 0]
  /\ UNCHANGED <<store, now, classVars, session, issued, profile, render>>

\* login, lines 87-89, and register, lines 134-136
loginFulfilled_NoUser(user, token) ==
  [status |-> "authenticated", user |-> None, token |-> token]

loginFulfilled(user, token) ==
  [status |-> "authenticated", user |-> user, token |-> token]

\* login, lines 81-84, and register, lines 128-131
ProviderLoginStart(t) ==
  /\ ProviderIs(t, {"login", "register"}, "start")
  /\ session' = [session EXCEPT !.status = "loading"]
  /\ stack' = Push(t, [Top(t) EXCEPT !.pc = "awaiting"],
                   Frame(IF Top(t).fn = Provider("login") THEN "login" ELSE "register",
                         "start", None, "unset"))
  /\ UNCHANGED <<store, now, ret, logoutCalls, classVars, issued, profile, render>>

\* login, lines 85-96, and register, lines 132-143: the service returned the
\* user, the token is read back from the store; or it threw
ProviderLoginSettled(t) ==
  /\ ProviderIs(t, {"login", "register"}, "awaiting")
  /\ IF ret[t].ok
     THEN \E readOk \in BOOLEAN :
            /\ session' = loginFulfilled(ret[t].data.user, getAccessToken(readOk))
            /\ Return(t, Resolved(Top(t).fn, NullData))
     ELSE /\ session' = [session EXCEPT !.status = "unauthenticated"]
          /\ Return(t, Thrown(Top(t).fn, ret[t].err))
  /\ UNCHANGED <<store, now, logoutCalls, classVars, issued, profile, render>>

\* logout, line 106
ProviderLogoutStart(t) ==
  /\ ProviderIs(t, {"logout"}, "start")
  /\ stack' = Push(t, [Top(t) EXCEPT !.pc = "awaiting"],
                   Frame("logout", "start", None, "unset"))
  /\ UNCHANGED <<store, now, ret, logoutCalls, classVars, session, issued, profile, render>>

\* logout, lines 108-120: the local state is reset on both paths
ProviderLogoutSettled(t) ==
  /\ ProviderIs(t, {"logout"}, "awaiting")
  /\ session' = [status |-> "unauthenticated", user |-> None, token |-> None]
  /\ Return(t, IF ret[t].ok THEN Resolved(Top(t).fn, NullData)
               ELSE Thrown(Top(t).fn, ret[t].err))
  /\ UNCHANGED <<store, now, logoutCalls, classVars, issued, profile, render>>

\* refreshToken, line 153
ProviderRefreshStart(t) ==
  /\ ProviderIs(t, {"refreshToken"}, "start")
  /\ stack' = Push(t, [Top(t) EXCEPT !.pc = "awaiting"],
                   Frame("refreshToken", "start", None, "unset"))
  /\ UNCHANGED <<store, now, ret, logoutCalls, classVars, session, issued, profile, render>>

\* refreshToken, lines 154-165: only the token is set on success
ProviderRefreshSettled(t) ==
  /\ ProviderIs(t, {"refreshToken"}, "awaiting")
  /\ IF ret[t].ok
     THEN \E readOk \in BOOLEAN :
            /\ session' = [session EXCEPT !.token = getAccessToken(readOk)]
            /\ Return(t, Resolved(Top(t).fn, NullData))
     ELSE /\ session' = [status |-> "unauthenticated", user |-> None, token |-> None]
          /\ Return(t, Thrown(Top(t).fn, ret[t].err))
  /\ UNCHANGED <<store, now, logoutCalls, classVars, issued, profile, render>>

\* updateUser, line 175
ProviderUpdateStart(t) ==
  /\ ProviderIs(t, {"updateUser"}, "start")
  /\ stack' = Push(t, [Top(t) EXCEPT !.pc = "awaiting"],
                   Frame("updateUser", "start", None, "unset"))
  /\ UNCHANGED <<store, now, ret, logoutCalls, classVars, session, issued, profile, render>>

\* updateUser, lines 176-182: setUser, then the log line reads updatedUser.id,
\* which throws on a null user
ProviderUpdateSettled(t) ==
  /\ ProviderIs(t, {"updateUser"}, "awaiting")
  /\ IF ret[t].ok
     THEN /\ session' = [session EXCEPT !.user = ret[t].data.user]
          /\ Return(t, IF ret[t].data.user = None THEN Thrown(Top(t).fn, PlainError)
                       ELSE Resolved(Top(t).fn, NullData))
     ELSE /\ UNCHANGED session
          /\ Return(t, Thrown(Top(t).fn, ret[t].err))
  /\ UNCHANGED <<store, now, logoutCalls, classVars, issued, profile, render>>

\* initAuth, lines 42-53 and 66-69: status loading, both reads, then
\* checkAuth when a token and a user were read
InitAuthStart(t) ==
  /\ ProviderIs(t, {"initAuth"}, "start")
  /\ \E tokenOk \in BOOLEAN, userOk \in BOOLEAN :
       LET f == Top(t)
           savedToken == getAccessToken(tokenOk)
           savedUser == JSONparse(getItem("user", userOk))
       IN IF savedToken # None /\ savedUser # None
          THEN /\ session' = [session EXCEPT !.status = "loading"]
               /\ stack' = Push(t, [f EXCEPT !.pc = "checking", !.token = savedToken,
                                             !.tokenInfo = [NullData EXCEPT !.user = savedUser]],
                                Frame("checkAuth", "start", None, "unset"))
               /\ UNCHANGED ret
          ELSE /\ session' = [session EXCEPT !.status = "unauthenticated"]
               /\ Return(t, Resolved(f.fn, NullData))
  /\ UNCHANGED <<store, now, logoutCalls, classVars, issued, profile, render>>

\* initAuth, lines 55-58
initAuthRestored_NoStatus(savedUser, savedToken) ==
  [session EXCEPT !.user = savedUser, !.token = savedToken]

initAuthRestored(savedUser, savedToken) ==
  [status |-> "authenticated", user |-> savedUser, token |-> savedToken]

\* initAuth, lines 55-73: restore the session, or clear the store; a failing
\* clearAll lands in the catch, which sets the same status
InitAuthChecked(t) ==
  /\ ProviderIs(t, {"initAuth"}, "checking")
  /\ LET f == Top(t)
     IN IF ret[t].data.kind = "true"
        THEN /\ session' = initAuthRestored(f.tokenInfo.user, f.token)
             /\ UNCHANGED store
        ELSE \E tokFail \in 0..3, userFail \in BOOLEAN :
               /\ store' = clearAll(store, tokFail, userFail).store
               /\ session' = [session EXCEPT !.status = "unauthenticated"]
  /\ Return(t, Resolved(Top(t).fn, NullData))
  /\ UNCHANGED <<now, logoutCalls, classVars, issued, profile, render>>

(* ------------------------- further specifications ---------------------- *)

\* a process started at any of the moments, the provider not yet mounted
TimedInit ==
  /\ store \in Stores
  /\ now \in Times
  /\ stack = [t \in Tasks |-> <<>>]
  /\ ret = [t \in Tasks |-> NoResult]
  /\ logoutCalls = [t \in Tasks |-> 0]
  /\ ClassIdle
  /\ SessionIdle
  /\ issued = TokenInfos
  /\ profile = NoProfile
  /\ render = NoRender

\* authService.checkAuth called on its own
CheckAuthStep(t) ==
  \/ Step(t)
  \/ CheckAuthStart(t)
  \/ CheckAuthRefreshed(t)

CheckAuthNext ==
  \/ \E t \in Tasks : CallAuthService(t, "checkAuth")
  \/ \E t \in Tasks : CheckAuthStep(t)

CheckAuthSpec == TimedInit /\ [][CheckAuthNext]_vars

\* the provider's mount effect and the context's checkAuth
StartupStep(t) ==
  \/ CheckAuthStep(t)
  \/ InitAuthStart(t)
  \/ InitAuthChecked(t)

StartupNext ==
  \/ \E t \in Tasks : CallProvider(t, "initAuth")
  \/ \E t \in Tasks : StartupStep(t)

StartupSpec == TimedInit /\ [][StartupNext]_vars

StartupFairSpec == StartupSpec /\ \A t \in Tasks : WF_vars(StartupStep(t))

\* a fresh installation: an empty store, the provider not yet mounted (no
\* stored expiry is read in the specifications that start here, so one
\* moment stands for all)
FreshInit ==
  /\ store = EmptyStore
  /\ now = 0
  /\ stack = [t \in Tasks |-> <<>>]
  /\ ret = [t \in Tasks |-> NoResult]
  /\ logoutCalls = [t \in Tasks |-> 0]
  /\ ClassIdle
  /\ SessionIdle
  /\ issued = TokenInfos
  /\ profile = NoProfile
  /\ render = NoRender

\* the context's login and register on their own
LoginStep(t) ==
  \/ AuthStep(t)
  \/ ProviderLoginStart(t)
  \/ ProviderLoginSettled(t)

LoginNext ==
  \/ \E t \in Tasks, op \in {"login", "register"} : CallProvider(t, op)
  \/ \E t \in Tasks : LoginStep(t)

LoginSpec == FreshInit /\ [][LoginNext]_vars

\* an application that logs in through the context and issues requests
\* through the HTTP client
AppNext ==
  \/ \E t \in Tasks : CallProvider(t, "login")
  \/ \E t \in Tasks : Call(t, "unset")
  \/ \E t \in Tasks : LoginStep(t)

AppSpec == FreshInit /\ [][AppNext]_vars

\* the operations the context exposes besides checkAuth, in any order
SessionStep(t) ==
  \/ LoginStep(t)
  \/ UpdateUserStart(t)
  \/ UpdateUserPosted(t)
  \/ ProviderLogoutStart(t)
  \/ ProviderLogoutSettled(t)
  \/ ProviderRefreshStart(t)
  \/ ProviderRefreshSettled(t)
  \/ ProviderUpdateStart(t)
  \/ ProviderUpdateSettled(t)

SessionNext ==
  \/ \E t \in Tasks, op \in {"login", "logout", "refreshToken", "updateUser"} :
        CallProvider(t, op)
  \/ \E t \in Tasks : SessionStep(t)

SessionSpec == FreshInit /\ [][SessionNext]_vars

(* ------------------------ concurrent requests -------------------------- *)

\* two requests in flight at once; each is followed through the frames of
\* one refresh or logout made on its behalf
Pair == {"t1", "t2"}
ConcDepth == 3
ConcRounds == 1

\* what an earlier login left
StoredSession ==
  [accessToken |-> "A1", refreshToken |-> "R1",
   tokenExpireAt |-> ToString(3600000), user |-> JSONstringify("U1")]

\* a server that rotates the tokens: two refreshes may be answered with
\* different complete TokenInfos
ConcInit ==
  /\ store = StoredSession
  /\ now = 0
  /\ stack = [t \in Pair |-> <<>>]
  /\ ret = [t \in Pair |-> NoResult]
  /\ logoutCalls = [t \in Pair |-> 0]
  /\ ClassIdle
  /\ SessionIdle
  /\ issued = {Data("token", "A2", "R2", 3600), RotatedTokenInfo}
  /\ profile = NoProfile
  /\ render = NoRender

\* the frames and the refresh rounds each request is followed through
ConcBound(t) ==
  /\ Len(stack[t]) <= ConcDepth
  /\ \A i \in 1..Len(stack[t]) : stack[t][i].refreshes <= ConcRounds

\* the steps of the pipeline, each kept within the bound
ConcStep(t) ==
  \/ Dispatch(t) /\ ConcBound(t)'
  \/ ResponseFulfilled(t) /\ ConcBound(t)'
  \/ ResponseRejected(t) /\ ConcBound(t)'
  \/ AfterRefresh(t) /\ ConcBound(t)'
  \/ AfterLogout(t) /\ ConcBound(t)'
  \/ RefreshStart(t) /\ ConcBound(t)'
  \/ RefreshPosted(t) /\ ConcBound(t)'
  \/ SaveAccess(t) /\ ConcBound(t)'
  \/ SaveRefresh(t) /\ ConcBound(t)'
  \/ SaveExpire(t) /\ ConcBound(t)'
  \/ RefreshDone(t) /\ ConcBound(t)'
  \/ RefreshCatch(t) /\ ConcBound(t)'
  \/ LogoutStart(t) /\ ConcBound(t)'
  \/ LogoutPosted(t) /\ ConcBound(t)'

\* each task issues one request
ConcNext ==
  \/ \E t \in Pair : Call(t, "unset") /\ ret[t] = NoResult
  \/ \E t \in Pair : ConcStep(t)

ConcSpec == ConcInit /\ [][ConcNext]_vars

(* ---------------------- the storage services alone --------------------- *)

\* SecureStorageService and CacheStorageService share one shape; AuthStorage
\* keeps the two tokens in the secure partition, the expiry and the user in
\* the cache partition
StorageKeys == {"accessToken", "refreshToken", "tokenExpireAt", "user"}

Partition(key) ==
  IF key \in {"accessToken", "refreshToken"} THEN "secure" ELSE "cache"

\* texts a caller writes with setItem: a token, and a user's JSON text
Texts == {"A1", JSONstringify("U2")}

\* what a read hands back
ReadData(value) == [kind |-> "read", value |-> value]

\* a call of one storage operation; backendOk tells whether SecureStore,
\* AsyncStorage or localStorage fails during it
StorageCall(fn, key, value, backendOk) ==
  [fn |-> fn, pc |-> "start", key |-> key, value |-> value,
   backendOk |-> backendOk]

CallStorage(t, fn, key, value) ==
  /\ ~Running(t)
  /\ \E backendOk \in BOOLEAN :
       stack' = [stack EXCEPT ![t] = <<StorageCall(fn, key, value, backendOk)>>]
  /\ ret' = [ret EXCEPT ![t] = NoResult]
  /\ UNCHANGED <<store, now, logoutCalls, classVars, session, issued, profile, render>>

\* JSON.parse throws on a text that is no JSON
isJSON(text) == \E u \in Users \cup {None} : JSONstringify(u) = text

\* getObject: null for nothing stored, for a failed read and from the catch
\* around JSON.parse
getObject(key, readOk) ==
  LET jsonValue == getItem(key, readOk)
  IN IF jsonValue = None THEN None
     ELSE IF isJSON(jsonValue) THEN JSONparse(jsonValue)
     ELSE None

\* setItem: the backend's failure is logged and rethrown
StorageSetItem(t) ==
  /\ TopIs(t, "setItem", "start")
  /\ IF Top(t).backendOk
     THEN /\ store' = [store EXCEPT ![Top(t).key] = Top(t).value]
          /\ Return(t, Resolved("setItem", NullData))
     ELSE /\ UNCHANGED store
          /\ Return(t, Thrown("setItem", PlainError))
  /\ UNCHANGED <<now, logoutCalls, classVars, session, issued, profile, render>>

\* getItem: the backend's failure is logged and null is returned
StorageGetItem(t) ==
  /\ TopIs(t, "getItem", "start")
  /\ Return(t, Resolved("getItem", ReadData(getItem(Top(t).key, Top(t).backendOk))))
  /\ UNCHANGED <<store, now, logoutCalls, classVars, session, issued, profile, render>>

\* removeItem: the backend's failure is logged and rethrown
StorageRemoveItem(t) ==
  /\ TopIs(t, "removeItem", "start")
  /\ IF Top(t).backendOk
     THEN /\ store' = [store EXCEPT ![Top(t).key] = None]
          /\ Return(t, Resolved("removeItem", NullData))
     ELSE /\ UNCHANGED store
          /\ Return(t, Thrown("removeItem", PlainError))
  /\ UNCHANGED <<now, logoutCalls, classVars, session, issued, profile, render>>

\* setObject: JSON.stringify, then setItem; its rejection is rethrown
StorageSetObject(t) ==
  /\ TopIs(t, "setObject", "start")
  /\ IF Top(t).backendOk
     THEN /\ store' = [store EXCEPT ![Top(t).key] = JSONstringify(Top(t).value)]
          /\ Return(t, Resolved("setObject", NullData))
     ELSE /\ UNCHANGED store
          /\ Return(t, Thrown("setObject", PlainError))
  /\ UNCHANGED <<now, logoutCalls, classVars, session, issued, profile, render>>

\* getObject
StorageGetObject(t) ==
  /\ TopIs(t, "getObject", "start")
  /\ Return(t, Resolved("getObject", ReadData(getObject(Top(t).key, Top(t).backendOk))))
  /\ UNCHANGED <<store, now, logoutCalls, classVars, session, issued, profile, render>>

StorageStep(t) ==
  \/ StorageSetItem(t)
  \/ StorageGetItem(t)
  \/ StorageRemoveItem(t)
  \/ StorageSetObject(t)
  \/ StorageGetObject(t)

StorageNext ==
  \/ \E t \in Tasks, key \in StorageKeys, text \in Texts :
        CallStorage(t, "setItem", key, text)
  \/ \E t \in Tasks, key \in StorageKeys, user \in Users \cup {None} :
        CallStorage(t, "setObject", key, user)
  \/ \E t \in Tasks, key \in StorageKeys, fn \in {"getItem", "getObject", "removeItem"} :
        CallStorage(t, fn, key, None)
  \/ \E t \in Tasks : StorageStep(t)

StorageSpec == Init /\ [][StorageNext]_vars

(* ------------------ permission checks and the guard ------------------- *)

\* the user of the auth context, as the permission code sees it
CurrentUser ==
  IF session.user = None
  THEN [null |-> TRUE, roles |-> Undefined, permissions |-> Undefined]
  ELSE [null |-> FALSE, roles |-> profile.roles, permissions |-> profile.permissions]

\* Array.prototype.includes; some and every are written as \E and \A over
\* the indices of the list
arrayIncludes(list, x) == \E i \in 1..Len(list) : list[i] = x

\* field?.includes(x) ?? false, and the undefined of field?.includes(x)
\* where it is used as a condition
includesOpt(field, x) == field.defined /\ arrayIncludes(field.items, x)

\* PermissionService.isSuperAdmin
isSuperAdmin(user) ==
  IF user.null THEN FALSE
  ELSE includesOpt(user.roles, "admin") \/ includesOpt(user.roles, "super_admin")

\* PermissionService.hasPermission
hasPermission(user, permission) ==
  IF user.null THEN FALSE
  ELSE IF isSuperAdmin(user) THEN TRUE
  ELSE includesOpt(user.permissions, permission)

\* PermissionService.hasAnyPermission
hasAnyPermission(user, permissions) ==
  IF user.null THEN FALSE
  ELSE IF isSuperAdmin(user) THEN TRUE
  ELSE \E i \in 1..Len(permissions) : includesOpt(user.permissions, permissions[i])

\* PermissionService.hasAllPermissions
hasAllPermissions(user, permissions) ==
  IF user.null THEN FALSE
  ELSE IF isSuperAdmin(user) THEN TRUE
  ELSE \A i \in 1..Len(permissions) : includesOpt(user.permissions, permissions[i])

\* PermissionService.hasAnyRole
hasAnyRole(user, roles) ==
  IF user.null THEN FALSE
  ELSE \E i \in 1..Len(roles) : includesOpt(user.roles, roles[i])

\* PermissionService.hasAllRoles
hasAllRoles(user, roles) ==
  IF user.null THEN FALSE
  ELSE \A i \in 1..Len(roles) : includesOpt(user.roles, roles[i])

\* useHasPermission: user?.permissions?.includes(permission) ?? false
useHasPermission(user, permission) ==
  IF user.null THEN FALSE
  ELSE includesOpt(user.permissions, permission)

\* useHasAnyPermission
useHasAnyPermission(user, permissions) ==
  IF user.null \/ ~user.permissions.defined THEN FALSE
  ELSE \E i \in 1..Len(permissions) : arrayIncludes(user.permissions.items, permissions[i])

\* useHasAllPermissions
useHasAllPermissions(user, permissions) ==
  IF user.null \/ ~user.permissions.defined THEN FALSE
  ELSE \A i \in 1..Len(permissions) : arrayIncludes(user.permissions.items, permissions[i])

\* AuthContext value, lines 208-209
isAuthenticated == session.status = "authenticated"
isLoading == session.status = "loading"

\* the props a RouteGuard is mounted with
GuardProps ==
  [requiresAuth : BOOLEAN, permissions : Optional(PermissionNames),
   roles : Optional({"admin", "editor"}), requireAll : BOOLEAN,
   redirectTo : {None, "/signin"}, fallback : BOOLEAN]

\* RouteGuard, lines 90-103: the permission check of an authenticated user
hasAccess(props, user) ==
  LET byPermissions ==
        IF props.permissions.defined /\ Len(props.permissions.items) > 0
        THEN IF props.requireAll
             THEN hasAllPermissions(user, props.permissions.items)
             ELSE hasAnyPermission(user, props.permissions.items)
        ELSE TRUE
  IN IF byPermissions /\ props.roles.defined /\ Len(props.roles.items) > 0
     THEN IF props.requireAll
          THEN hasAllRoles(user, props.roles.items)
          ELSE hasAnyRole(user, props.roles.items)
     ELSE byPermissions

\* RouteGuard, lines 76-121: what the component returns
RouteGuardOutput(props, user) ==
  IF isLoading THEN "spinner"
  ELSE IF props.requiresAuth /\ ~isAuthenticated THEN "nothing"
  ELSE IF /\ isAuthenticated
          /\ (props.permissions.defined \/ props.roles.defined)
          /\ ~hasAccess(props, user)
    THEN IF props.fallback THEN "fallback" ELSE "nothing"
  ELSE "children"

\* RouteGuard, lines 61-73: the effect that runs after the render
RouteGuardEffect(props) ==
  IF props.requiresAuth /\ ~isLoading /\ ~isAuthenticated
  THEN IF props.redirectTo # None THEN "replace" ELSE "navigateToLogin"
  ELSE "none"

uiVars == <<store, now, stack, ret, logoutCalls, classVars, session, issued, profile>>

\* a RouteGuard is rendered with some props under the current auth context;
\* one render or hook call is looked at per run
RenderRouteGuard ==
  /\ render = NoRender
  /\ \E props \in GuardProps :
       render' = [kind |-> "RouteGuard", props |-> props,
                  out |-> RouteGuardOutput(props, CurrentUser),
                  effect |-> RouteGuardEffect(props)]
  /\ UNCHANGED uiVars

\* a component calls useHasPermission
CallUseHasPermission ==
  /\ render = NoRender
  /\ \E permission \in PermissionNames :
       render' = [kind |-> "useHasPermission", arg |-> permission,
                  out |-> useHasPermission(CurrentUser, permission)]
  /\ UNCHANGED uiVars

\* a component calls useHasAnyPermission
CallUseHasAnyPermission ==
  /\ render = NoRender
  /\ \E permissions \in Lists(PermissionNames) :
       render' = [kind |-> "useHasAnyPermission", arg |-> permissions,
                  out |-> useHasAnyPermission(CurrentUser, permissions)]
  /\ UNCHANGED uiVars

\* a component calls useHasAllPermissions
CallUseHasAllPermissions ==
  /\ render = NoRender
  /\ \E permissions \in Lists(PermissionNames) :
       render' = [kind |-> "useHasAllPermissions", arg |-> permissions,
                  out |-> useHasAllPermissions(CurrentUser, permissions)]
  /\ UNCHANGED uiVars

\* the auth context a component can be rendered under: no user before the
\* start-up finished; afterwards any status with or without a user
GuardInit ==
  /\ store = EmptyStore
  /\ now = 0
  /\ stack = [t \in Tasks |-> <<>>]
  /\ ret = [t \in Tasks |-> NoResult]
  /\ logoutCalls = [t \in Tasks |-> 0]
  /\ ClassIdle
  /\ session \in [status : {"idle", "loading", "authenticated", "unauthenticated"},
                  user : {None, "U1"}, token : {None}]
  /\ session.status = "idle" => session.user = None
  /\ issued = TokenInfos
  /\ profile \in Profiles
  /\ session.user = None => profile = NoProfile
  /\ render = NoRender

GuardNext ==
  \/ RenderRouteGuard
  \/ CallUseHasPermission
  \/ CallUseHasAnyPermission
  \/ CallUseHasAllPermissions

GuardSpec == GuardInit /\ [][GuardNext]_vars

(* ------------------------------- claims -------------------------------- *)

RequestFrames(t) == {i \in 1..Len(stack[t]) : stack[t][i].fn = "request"}

\* the top frame of t is a request that has been sent and t takes a step
Answered(t) == TopIs(t, "request", "wait") /\ stack'[t] # stack[t]
Returned(t) == stack'[t] = SubSeq(stack[t], 1, Len(stack[t]) - 1)

\* C1: on behalf of one request the refresh function is invoked at most
\* once and the request is re-dispatched at most once: a replay that gets a
\* 401 is surfaced without a second refresh.
C1_AtMostOneRefreshAndReplay ==
  \A t \in Tasks : \A i \in RequestFrames(t) :
    stack[t][i].refreshes <= 1 /\ stack[t][i].replays <= 1

\* C2: a request whose refresh failed has had the logout callback invoked
\* exactly once and rejects with type UNAUTHORIZED, whatever the logout
\* endpoint answered.
C2_LogoutOnceThenUnauthorized ==
  \A t \in Tasks :
    /\ logoutCalls[t] <= 1
    /\ (~Running(t) /\ logoutCalls[t] >= 1) =>
         (~ret[t].ok /\ ret[t].err.type = "UNAUTHORIZED")

\* C3: every call of request() eventually completes, whatever the server
\* answers.
C3_RequestCompletes == \A t \in Tasks : Running(t) ~> ~Running(t)

\* C4: after a refresh that stored a new access token the request is
\* re-dispatched carrying that token (whenever the store's read yields it),
\* and what that replay is answered goes to the caller of the request.
C4_ReplayCarriesNewTokenAndIsReturned ==
  [][\A t \in Tasks :
       /\ (TopIs(t, "request", "send") /\ Top(t).replays = 1
             /\ stack'[t] # stack[t] /\ Top(t)'.token # None)
            => /\ store.accessToken \in {ti.accessToken : ti \in TokenInfos}
               /\ Top(t)'.hdr = Bearer(store.accessToken)
       /\ (Answered(t) /\ Top(t).replays = 1) => Returned(t)]_vars

\* the header a dispatch is to carry for a token, or for none
HeaderFor(token) == IF token # None THEN Bearer(token) ELSE NoHeader

\* C5: every dispatched request (first attempt or replay) carries Bearer
\* <token> for the token the Credential Store holds, and no Authorization
\* header when no token is present -- "holds" read either as the stored
\* value or as what the store's read yielded for this dispatch.
C5_HeaderFollowsStore ==
  \A t \in Tasks :
    TopIs(t, "request", "wait") =>
      \/ Top(t).hdr = HeaderFor(store.accessToken)
      \/ Top(t).hdr = HeaderFor(Top(t).token)

\* C6: a request issued with requiresAuth forced off is dispatched without
\* an Authorization header even when the store holds a token; with
\* requiresAuth true or unset it gets the header of the token read.
C6_RequiresAuthOffSendsNoHeader ==
  \A t \in Tasks :
    (TopIs(t, "request", "wait") /\ Top(t).endpoint = "api") =>
      /\ Top(t).requiresAuth = "false" => Top(t).hdr = NoHeader
      /\ (Top(t).requiresAuth # "false" /\ Top(t).token # None)
           => Top(t).hdr = Bearer(Top(t).token)

C8_RejectionsAreNetworkErrors ==
  [][\A t \in Tasks :
       /\ (ret'[t].from = "request" /\ ~ret'[t].ok) =>
            /\ ret'[t].err.type \in NetworkErrorType
            /\ ret'[t].err.message # {}
            /\ ~ret'[t].err.isAxiosError
       /\ (TopIs(t, "request", "loggingout") /\ ret[t].ok /\ stack'[t] # stack[t]) =>
            ret'[t].err.type = Top(t).err.type]_vars

C8_Witness ==
  \E t \in Tasks :
    /\ ~Running(t)
    /\ logoutCalls[t] = 1
    /\ ret[t].from = "request" /\ ~ret[t].ok
    /\ ret[t].err.type = "UNKNOWN"

\* C9: an answer with a business code other than 0 and 200 is only logged:
\* request() resolves with the envelope's data in that step, nothing is
\* refreshed, the logout callback is not invoked, the store is unchanged.
C9_BusinessCodeResolves ==
  [][\A t \in Tasks :
       (Answered(t) /\ ret'[t].warned) =>
         /\ Returned(t)
         /\ ret'[t].ok
         /\ ret'[t].from = "request"
         /\ ret'[t].err = NoError
         /\ store' = store
         /\ logoutCalls' = logoutCalls]_vars

C9_Witness ==
  \E t \in Tasks :
    /\ ~Running(t)
    /\ ret[t].ok /\ ret[t].warned
    /\ ret[t].data = Payload
    /\ logoutCalls[t] = 0

\* what the claim calls a timeout, a network failure and a cancellation of
\* a request that got no response
IsTimeout(e) == e.code = "ECONNABORTED" \/ includes(e.message, "timeout")
IsNetworkFailure(e) == e.code = "ERR_NETWORK" \/ includes(e.message, "Network Error")
IsCancellation(e) == e.code = "ERR_CANCELED" \/ includes(e.message, "cancel")

\* C10: the classifier gives 401 UNAUTHORIZED, 403 FORBIDDEN, 404
\* NOT_FOUND, other 4xx CLIENT_ERROR, 5xx and above SERVER_ERROR; without a
\* response a timeout gives TIMEOUT, else a network failure NO_NETWORK, else
\* a cancellation CANCEL, else UNKNOWN; shouldReLogin is true exactly for
\* UNAUTHORIZED.
C10_ClassifierTable ==
  /\ cPc \in {"classified", "checked"} =>
       /\ cErr.status = 401 => cOut.type = "UNAUTHORIZED"
       /\ cErr.status = 403 => cOut.type = "FORBIDDEN"
       /\ cErr.status = 404 => cOut.type = "NOT_FOUND"
       /\ (cErr.status \in 400..499 \ {401, 403, 404}) => cOut.type = "CLIENT_ERROR"
       /\ cErr.status >= 500 => cOut.type = "SERVER_ERROR"
       /\ cErr.status = 0 =>
            cOut.type = IF IsTimeout(cErr) THEN "TIMEOUT"
                        ELSE IF IsNetworkFailure(cErr) THEN "NO_NETWORK"
                        ELSE IF IsCancellation(cErr) THEN "CANCEL"
                        ELSE "UNKNOWN"
  /\ cPc = "checked" => (cOut.reLogin <=> cOut.type = "UNAUTHORIZED")

C12_LoginPopulatesStoreAndSession ==
  [][\A t \in Tasks :
       /\ (ProviderIs(t, {"login", "register"}, "awaiting") /\ ret[t].ok) =>
            LET r == ret[t].data
            IN /\ Returned(t)
               /\ Provider(ret[t].from) = Top(t).fn
               /\ store.accessToken = r.accessToken
               /\ r.refreshToken # None => store.refreshToken = r.refreshToken
               /\ r.expiresIn # 0 =>
                    parseInt(store.tokenExpireAt) = now + r.expiresIn * 1000
               /\ JSONparse(store.user) = r.user
               /\ getAccessToken(TRUE) = r.accessToken
               /\ session'.status = "authenticated"
               /\ session'.user = r.user
               /\ r.user \in Users
       /\ (Running(t) /\ Top(t).fn \in {"login", "register"} /\ Top(t).pc = "start") =>
            (Top(t)' = Frame("request", "send", Top(t).fn, "unset"))]_vars

\* register() was fulfilled with a full response on a fresh installation
C12_Witness ==
  \E t \in Tasks :
    /\ ~Running(t)
    /\ ret[t] = Resolved(Provider("register"), NullData)
    /\ session = [status |-> "authenticated", user |-> "U2", token |-> "A2"]
    /\ store = [accessToken |-> "A2", refreshToken |-> "R2",
                tokenExpireAt |-> ToString(now + 3600000),
                user |-> JSONstringify("U2")]

\* C13: isTokenExpired() is true exactly when an expiry is stored, is read,
\* and now >= expiry - 300000 ms; it is false when nothing is stored and when
\* the read fails; checkAuth() starts a refresh only in the first case.
C13_ExpiredFromFiveMinutesBefore ==
  /\ [](/\ isTokenExpired(TRUE) <=>
             /\ store.tokenExpireAt # None
             /\ now >= parseInt(store.tokenExpireAt) - 300000
        /\ ~isTokenExpired(FALSE))
  /\ [][\A t \in Tasks :
          (TopIs(t, "checkAuth", "start") /\ Len(stack'[t]) > Len(stack[t])) =>
            /\ store.tokenExpireAt # None
            /\ now >= parseInt(store.tokenExpireAt) - 300000]_vars

\* checkAuth() found the token expired exactly five minutes before its
\* stored expiry and started the refresh
C13_Witness ==
  \E t \in Tasks :
    /\ TopIs(t, "refreshToken", "start")
    /\ Len(stack[t]) = 2
    /\ stack[t][1].fn = "checkAuth"
    /\ store.tokenExpireAt # None
    /\ now = parseInt(store.tokenExpireAt) - 300000

RefreshReturns(t) ==
  Running(t) /\ Top(t).fn = "refreshToken" /\ Returned(t)

\* C15 as stated: whenever refreshToken() fails, the four entries of the
\* Credential Store are absent and the error that made it fail is the one
\* raised; when it succeeds, the stored access token is the endpoint's.
C15_FailedRefreshClearsStoreAndRethrows ==
  [][\A t \in Tasks :
       RefreshReturns(t) =>
         IF ret'[t].ok
         THEN /\ Top(t).tokenInfo \in TokenInfos
              /\ store'.accessToken = Top(t).tokenInfo.accessToken
         ELSE /\ store' = EmptyStore
              /\ ret'[t].err = Top(t).err]_vars

\* C15, amended: a failing refreshToken() clears the four entries and raises
\* the error that made it fail, unless a removal of the clearing fails: then
\* the removal's error is raised and entries may remain (none is written).
\* A succeeding refreshToken() leaves the endpoint's access token stored.
C15_FailedRefreshClearsUnlessRemovalFails ==
  [][\A t \in Tasks :
       RefreshReturns(t) =>
         /\ ret'[t].from = "refreshToken"
         /\ IF ret'[t].ok
            THEN /\ Top(t).pc = "saved"
                 /\ Top(t).tokenInfo \in TokenInfos
                 /\ store'.accessToken = Top(t).tokenInfo.accessToken
                 /\ store' = store
            ELSE /\ Top(t).pc = "catch"
                 /\ \/ store' = EmptyStore /\ ret'[t].err = Top(t).err
                    \/ /\ ret'[t].err = PlainError
                       /\ \A k \in DOMAIN store : store'[k] \in {None, store[k]}]_vars

\* refreshToken() rejected with the NetworkError of its POST and left the
\* store empty
C15_Witness ==
  \E t \in Tasks :
    /\ ~Running(t)
    /\ ret[t].from = "refreshToken"
    /\ ~ret[t].ok
    /\ ret[t].err.type # None
    /\ store = EmptyStore

\* C16: once the provider has resolved a session, whenever the session-
\* termination callback has returned to the response interceptor after a 401
\* and a failed refresh of a request the application issued, the Credential
\* Store holds none of its four entries and the Session is unauthenticated
\* with no user and no token.
C16_TerminationResetsSession ==
  \A t \in Tasks :
    (/\ TopIs(t, "request", "loggingout")
     /\ ret[t] = Resolved("logout", NullData)
     /\ CallerDepth(t) = 0
     /\ session.status # "idle") =>
      /\ store = EmptyStore
      /\ session = [status |-> "unauthenticated", user |-> None, token |-> None]

\* C17: whenever no operation is in flight, the Session's status is
\* authenticated if and only if its user and its token are both non-null.
C17_AuthenticatedIffUserAndToken ==
  (\A t \in Tasks : ~Running(t)) =>
    (session.status = "authenticated" <=>
       (session.user # None /\ session.token # None))

\* C18: whenever no operation is in flight and the Session is authenticated,
\* the Session's in-memory token equals the access token the Credential
\* Store holds.
C18_TokenMirrorsStore ==
  ((\A t \in Tasks : ~Running(t)) /\ session.status = "authenticated") =>
    session.token = store.accessToken

\* the startup sequence takes a step
InitAuthSteps(t, pc) ==
  ProviderIs(t, {"initAuth"}, pc) /\ stack'[t] # stack[t]

C20_InitializationLeavesLoading ==
  (session.status = "loading") ~>
    (session.status \in {"authenticated", "unauthenticated"})

\* the operations of the Auth Session Manager
SessionOps == {"login", "logout", "register", "refreshToken", "updateUser"}

\* C21: each operation of the context sets the status to loading before it
\* issues its call to the service, and the status is not loading once the
\* operation has returned.
C21_LoadingWhileOperating ==
  [][\A t \in Tasks :
       /\ (ProviderIs(t, SessionOps, "start") /\ stack'[t] # stack[t]) =>
            session'.status = "loading"
       /\ (ProviderIs(t, SessionOps, "awaiting") /\ Returned(t)) =>
            session'.status # "loading"]_vars

\* C22: every request answered 401 starts a refresh of its own, whatever the
\* other request in flight is doing, and is never rejected without one; when
\* its refresh returns it is replayed, when its refresh throws the logout
\* handler is called for it; no step of one request touches the other.
C22_OneRefreshPerFailingRequest ==
  [][\A t \in Pair :
       /\ (Answered(t) /\ Len(stack'[t]) > Len(stack[t])) =>
            /\ Top(t)' = Frame("refreshToken", "start", None, "unset")
            /\ stack'[t][Len(stack[t])].pc = "refreshing"
            /\ stack'[t][Len(stack[t])].err.type = "UNAUTHORIZED"
       /\ (Answered(t) /\ Returned(t) /\ ~ret'[t].ok) =>
            ret'[t].err.type # "UNAUTHORIZED"
       /\ (TopIs(t, "request", "refreshing") /\ stack'[t] # stack[t]) =>
            /\ ret[t].from = "refreshToken"
            /\ ret[t].ok => (Len(stack'[t]) = Len(stack[t]) /\ Top(t)'.pc = "send")
            /\ ~ret[t].ok =>
                 /\ Top(t)' = Frame("logout", "start", None, "unset")
                 /\ logoutCalls'[t] = Bump(logoutCalls[t])
       /\ stack'[t] # stack[t] =>
            \A u \in Pair \ {t} : stack'[u] = stack[u] /\ ret'[u] = ret[u]]_vars

\* two requests were answered 401 and each has its own refresh in flight
C22_Witness ==
  \A t \in Pair :
    /\ Len(stack[t]) = 3
    /\ stack[t][1].fn = "request" /\ stack[t][1].pc = "refreshing"
    /\ stack[t][1].endpoint = "api"
    /\ stack[t][2].fn = "refreshToken" /\ stack[t][2].pc = "posting"
    /\ stack[t][3].fn = "request" /\ stack[t][3].endpoint = "refresh"
    /\ stack[t][3].pc = "wait"

\* a storage operation of the given names runs to its end
StorageRuns(t, fns) ==
  Running(t) /\ Top(t).fn \in fns /\ Top(t).pc = "start" /\ Returned(t)

ReplayingAfterRefresh(t) ==
  /\ Len(stack[t]) = 1
  /\ stack[t][1].fn = "request"
  /\ stack[t][1].refreshes = 1
  /\ stack[t][1].replays = 1

\* C25: once the concurrent refreshes of both requests have succeeded, the
\* access token, the refresh token and the expiry in the Credential Store
\* are those of one TokenInfo the refresh endpoint answered with.
C25_StoreHoldsOneTokenInfo ==
  (\A t \in Pair : ReplayingAfterRefresh(t)) =>
    \E ti \in issued :
      /\ store.accessToken = ti.accessToken
      /\ store.refreshToken = ti.refreshToken
      /\ store.tokenExpireAt = ToString(now + ti.expiresIn * 1000)

\* the refresh made for u's request has saved its tokens and succeeded, and
\* the refresh made for t's request is about to run its catch block
CleanupAfterSave(t, u) ==
  /\ t # u
  /\ ReplayingAfterRefresh(u)
  /\ store.accessToken \in {ti.accessToken : ti \in issued}
  /\ TopIs(t, "refreshToken", "catch")
  /\ stack'[t] # stack[t]

\* C26 as stated: when the failing refresh's cleanup runs after the other
\* refresh saved fresh credentials, all four entries of the Credential Store
\* are cleared.
C26_FailedRefreshWipesFreshTokens ==
  [][\A t, u \in Pair : CleanupAfterSave(t, u) => store' = EmptyStore]_vars

\* C26, amended: the cleanup clears all four entries, the fresh credentials
\* included, unless one of its removals fails: then the removal's error is
\* raised and entries may remain (none is written).
C26_FailedRefreshWipesUnlessRemovalFails ==
  [][\A t, u \in Pair :
       CleanupAfterSave(t, u) =>
         /\ Returned(t)
         /\ ~ret'[t].ok
         /\ \/ store' = EmptyStore /\ ret'[t].err = Top(t).err
            \/ /\ ret'[t].err = PlainError
               /\ \A k \in DOMAIN store : store'[k] \in {None, store[k]}]_vars

\* one request is being replayed after its refresh succeeded while the other
\* request's failed refresh has left the store empty
C26_Witness ==
  \E t, u \in Pair :
    /\ t # u
    /\ ReplayingAfterRefresh(u)
    /\ TopIs(t, "request", "refreshing")
    /\ ret[t].from = "refreshToken"
    /\ ~ret[t].ok
    /\ ret[t].err.type # None
    /\ store = EmptyStore

\* saveToken is at one of its three writes and takes a step
SaveTokenSteps(t, pc) == Saving(t, pc) /\ stack'[t] # stack[t]

\* the step continues saveToken (the write did not fail)
SaveTokenGoesOn(t) == Top(t)'.pc # "catch"

\* C27: saveToken overwrites the stored access token and nothing else at its
\* first write; without a refreshToken in the TokenInfo the stored refresh
\* token is left as it was, and without an expiresIn (or with 0) the stored
\* expiry is left as it was, so that isTokenExpired() answers as before the
\* save; a present field overwrites its entry only.
C27_SaveTokenSkipsAbsentFields ==
  [][\A t \in Tasks :
       /\ (SaveTokenSteps(t, "saveAccess") /\ SaveTokenGoesOn(t)) =>
            store' = [store EXCEPT !["accessToken"] = Top(t).tokenInfo.accessToken]
       /\ (SaveTokenSteps(t, "saveRefresh") /\ SaveTokenGoesOn(t)) =>
            IF Top(t).tokenInfo.refreshToken = None
            THEN store' = store
            ELSE store' = [store EXCEPT !["refreshToken"] = Top(t).tokenInfo.refreshToken]
       /\ (SaveTokenSteps(t, "saveExpire") /\ SaveTokenGoesOn(t)) =>
            IF Top(t).tokenInfo.expiresIn = 0
            THEN /\ store' = store
                 /\ isTokenExpired(TRUE)' = isTokenExpired(TRUE)
            ELSE store' = [store EXCEPT !["tokenExpireAt"] =
                                    ToString(now + Top(t).tokenInfo.expiresIn * 1000)]
       /\ \A pc \in {"saveAccess", "saveRefresh", "saveExpire"} :
            (SaveTokenSteps(t, pc) /\ ~SaveTokenGoesOn(t)) => store' = store]_vars

\* checkAuth() refreshed an expired token, the answer carried neither a
\* refresh token nor expiresIn, and the new access token is stored next to
\* the previous refresh token and the previous expiry, which still reads as
\* expired
C27_Witness ==
  \E t \in Tasks :
    /\ ~Running(t)
    /\ ret[t] = Resolved("checkAuth", BoolData(TRUE))
    /\ store.accessToken = "A2"
    /\ store.refreshToken = "R1"
    /\ store.tokenExpireAt = ToString(3600000)
    /\ isTokenExpired(TRUE)

\* C28 as stated: a login (or register) that fails at any step leaves the
\* Credential Store as it was before the call, the Session unauthenticated
\* and the error raised to the caller. On a fresh installation where no
\* login or registration has been fulfilled yet (the Session has no user),
\* every call made so far has failed, so the store is still empty whenever
\* no call is in flight.
C28_FailedLoginLeavesStore ==
  \A t \in Tasks :
    (/\ \A u \in Tasks : ~Running(u)
     /\ session.user = None
     /\ ret[t] # NoResult /\ ~ret[t].ok
     /\ ret[t].from \in {Provider("login"), Provider("register")}) =>
      /\ session.status = "unauthenticated"
      /\ store = EmptyStore

\* the guard was mounted with a non-empty permissions or roles list
GuardConfigured ==
  /\ render.kind = "RouteGuard"
  /\ \/ render.props.permissions.defined /\ Len(render.props.permissions.items) > 0
     \/ render.props.roles.defined /\ Len(render.props.roles.items) > 0

\* C29 as stated: a RouteGuard with a non-empty permissions or roles list
\* renders its children only when the user is authenticated and passes the
\* configured check (any-of, or all-of with requireAll), whatever
\* requiresAuth, the auth status and the user are; otherwise it renders the
\* fallback, a spinner or nothing.
C29_GuardedChildrenNeedAccess ==
  GuardConfigured =>
    IF isAuthenticated /\ hasAccess(render.props, CurrentUser)
    THEN render.out = "children"
    ELSE render.out \in {"fallback", "spinner", "nothing"}

\* C30 as stated: for every user (null, and holders of admin or super_admin
\* included) and every permission, useHasPermission returns what
\* permissionService.hasPermission returns for that user, and
\* useHasAnyPermission / useHasAllPermissions return what
\* hasAnyPermission / hasAllPermissions return.
C30_HooksAgreeWithPermissionService ==
  /\ render.kind = "useHasPermission" =>
       render.out = hasPermission(CurrentUser, render.arg)
  /\ render.kind = "useHasAnyPermission" =>
       render.out = hasAnyPermission(CurrentUser, render.arg)
  /\ render.kind = "useHasAllPermissions" =>
       render.out = hasAllPermissions(CurrentUser, render.arg)

====
